---- MODULE Spec2Model ----
(***************************************************************************)
(* A model of scanner.py, the KAS insider scanner: one run of main() polls *)
(* the SEC "current filings" Atom feed, resolves each entry to its Form 4  *)
(* XML, extracts the open-market purchases, filters them by value and by   *)
(* price structure, scores them and sends one digest.                      *)
(*                                                                         *)
(* Representation.                                                         *)
(*  - A text is a sequence of tokens: one-character strings, and the two   *)
(*    markup tokens "<value>" and "</value>".  An Optional[str] is a       *)
(*    record [some, text]; Python's None is NoneText.                      *)
(*  - A float is a record [k, v]: k = "fin" with v the number in           *)
(*    hundredths, k = "inf" with v the sign, k = "nan", and k = "none" for *)
(*    None; a product of two floats is [k, v, f], see FMul.                *)
(*    Arithmetic on finite values is exact; binary rounding of IEEE        *)
(*    doubles is not modelled.                                             *)
(*  - Percentages (range percentile, drawdown) are exact fractions         *)
(*    [num, den]; scores are in tenths.                                    *)
(***************************************************************************)
EXTENDS Integers, Sequences, FiniteSets, TLC

(***************************************************************************)
(* Program constants (scanner.py:19-24).                                   *)
(***************************************************************************)
MIN_USD == 150000
MAX_ITEMS == 8
\* RANGE_PCTL_MAX = 0.65 and DRAWDOWN_3M_MIN = 0.15, in hundredths
RANGE_PCTL_MAX == 65
DRAWDOWN_3M_MIN == 15

(***************************************************************************)
(* Texts.                                                                  *)
(***************************************************************************)
Digits == {"0", "1", "2", "3", "4", "5", "6", "7", "8", "9"}

DigitVal(c) ==
    CASE c = "0" -> 0 [] c = "1" -> 1 [] c = "2" -> 2 [] c = "3" -> 3
      [] c = "4" -> 4 [] c = "5" -> 5 [] c = "6" -> 6 [] c = "7" -> 7
      [] c = "8" -> 8 [] c = "9" -> 9

NoneText == [some |-> FALSE, text |-> <<>>]

Some(t) == [some |-> TRUE, text |-> t]

\* Python truthiness of an Optional[str]: None and "" are falsy.
Truthy(x) == x.some /\ x.text # <<>>

\* x or y, on Optional[str]
Or(x, y) == IF Truthy(x) THEN x ELSE y

\* (x or "")
OrEmpty(x) == IF Truthy(x) THEN x.text ELSE <<>>

RECURSIVE LStrip(_)
LStrip(s) ==
    IF s # <<>> /\ Head(s) = " " THEN LStrip(Tail(s)) ELSE s

RECURSIVE RStrip(_)
RStrip(s) ==
    IF s # <<>> /\ s[Len(s)] = " " THEN RStrip(SubSeq(s, 1, Len(s) - 1)) ELSE s

\* str.strip()
Strip(s) == RStrip(LStrip(s))

UpperChar(c) ==
    CASE c = "p" -> "P" [] c = "s" -> "S" [] c = "a" -> "A" [] c = "d" -> "D"
      [] c = "n" -> "N" [] c = "i" -> "I" [] c = "f" -> "F" [] c = "x" -> "X"
      [] c = "c" -> "C" [] c = "m" -> "M" [] c = "e" -> "E"
      [] OTHER -> c

\* str.upper()
Upper(s) == [i \in 1..Len(s) |-> UpperChar(s[i])]

\* str.replace(",", "")
RemoveCommas(s) == SelectSeq(s, LAMBDA c : c # ",")

\* index of the first occurrence of token c in s at or after position from, 0 if none
RECURSIVE IndexOf(_, _, _)
IndexOf(s, c, from) ==
    IF from > Len(s) THEN 0
    ELSE IF s[from] = c THEN from
    ELSE IndexOf(s, c, from + 1)

(***************************************************************************)
(* Floats.                                                                 *)
(***************************************************************************)
NoneFloat == [k |-> "none", v |-> 0]

NaN == [k |-> "nan", v |-> 0]

Inf(sign) == [k |-> "inf", v |-> sign]

Fin(n) == [k |-> "fin", v |-> n]

AllDigits(s) == \A i \in 1..Len(s) : s[i] \in Digits

RECURSIVE DigitsVal(_)
DigitsVal(s) ==
    IF s = <<>> THEN 0
    ELSE 10 * DigitsVal(SubSeq(s, 1, Len(s) - 1)) + DigitVal(s[Len(s)])

\* the fraction digits of a decimal literal, in hundredths (the model's
\* inputs carry at most two fraction digits)
FracHundredths(f) ==
    IF Len(f) = 0 THEN 0
    ELSE IF Len(f) = 1 THEN 10 * DigitVal(f[1])
    ELSE 10 * DigitVal(f[1]) + DigitVal(f[2])

\* float(s) for an unsigned literal: digits[.digits], .digits, nan, inf
\* (any case); anything else raises ValueError (NoneFloat here).  Exponents,
\* "infinity" and digit-group underscores are outside the model's alphabet.
ParseUnsigned(s, sign) ==
    LET u == Upper(s)
        dot == IndexOf(s, ".", 1)
        ip == IF dot = 0 THEN s ELSE SubSeq(s, 1, dot - 1)
        fp == IF dot = 0 THEN <<>> ELSE SubSeq(s, dot + 1, Len(s))
    IN  IF u = <<"N", "A", "N">> THEN NaN
        ELSE IF u = <<"I", "N", "F">> THEN Inf(sign)
        ELSE IF Len(ip) + Len(fp) = 0 \/ ~AllDigits(ip) \/ ~AllDigits(fp)
             THEN NoneFloat
        ELSE Fin(sign * (100 * DigitsVal(ip) + FracHundredths(fp)))

\* to_float(x): None for None, None when float() raises
to_float(x) ==
    IF ~x.some THEN NoneFloat
    ELSE LET s == Strip(RemoveCommas(x.text))
         IN  IF s # <<>> /\ Head(s) = "-" THEN ParseUnsigned(Tail(s), -1)
             ELSE IF s # <<>> /\ Head(s) = "+" THEN ParseUnsigned(Tail(s), 1)
             ELSE ParseUnsigned(s, 1)

Sign(n) == IF n > 0 THEN 1 ELSE IF n < 0 THEN -1 ELSE 0

Abs(n) == IF n < 0 THEN -n ELSE n

\* A product of two floats is [k, v, f]: for k = "fin" the number is
\* v + f / 10000 with v its floor in whole dollars and f in 0..9999.
UsdNaN == [k |-> "nan", v |-> 0, f |-> 0]

UsdInf(sign) == [k |-> "inf", v |-> sign, f |-> 0]

\* sign * (whole + frac4 / 10000), whole >= 0 and frac4 in 0..9999
UsdFin(sign, whole, frac4) ==
    IF sign >= 0 \/ (whole = 0 /\ frac4 = 0)
    THEN [k |-> "fin", v |-> whole, f |-> frac4]
    ELSE IF frac4 = 0 THEN [k |-> "fin", v |-> -whole, f |-> 0]
    ELSE [k |-> "fin", v |-> -whole - 1, f |-> 10000 - frac4]

\* float(a) * float(b), a and b in hundredths; the finite product is
\* computed exactly, by whole and hundredth parts
FMul(a, b) ==
    IF a.k = "nan" \/ b.k = "nan" THEN UsdNaN
    ELSE IF a.k = "inf" \/ b.k = "inf"
         THEN IF Sign(a.v) * Sign(b.v) = 0 THEN UsdNaN
              ELSE UsdInf(Sign(a.v) * Sign(b.v))
    ELSE LET ah == Abs(a.v) \div 100
             al == Abs(a.v) % 100
             bh == Abs(b.v) \div 100
             bl == Abs(b.v) % 100
             frac4 == (ah * bl + al * bh) * 100 + al * bl
         IN  UsdFin(Sign(a.v) * Sign(b.v),
                    ah * bh + frac4 \div 10000, frac4 % 10000)

\* value < usd, usd a whole number of dollars; every comparison with NaN
\* is False
FLessUsd(value, usd) ==
    CASE value.k = "nan" -> FALSE
      [] value.k = "inf" -> value.v < 0
      [] OTHER -> value.v < usd

\* value >= usd
FGeUsd(value, usd) ==
    CASE value.k = "nan" -> FALSE
      [] value.k = "inf" -> value.v > 0
      [] OTHER -> value.v >= usd

(***************************************************************************)
(* Form 4 documents.  A document is [ticker, officer_title, is_director,   *)
(* is_officer, is_ten, blocks]: ticker is the content of the               *)
(* issuerTradingSymbol element (NoneText when the element is absent),      *)
(* blocks the nonDerivativeTransaction blocks in document order.  A block  *)
(* is [code, acq, shares, price], each the content of the block's          *)
(* transactionCode, transactionAcquiredDisposedCode, transactionShares and *)
(* transactionPricePerShare element (NoneText when absent).  Each element  *)
(* occurs at most once in a block.                                         *)
(***************************************************************************)

\* get(path_tag) of parse_form4_xml and val(tag) of parse_header_fields:
\* the element's content, stripped; None without the element
get(elem) == IF elem.some THEN Some(Strip(elem.text)) ELSE NoneText

\* inner_value(tag): the stripped text of the first <value>...</value>
\* inside the element; None without one
inner_value(elem) ==
    LET open == IndexOf(elem.text, "<value>", 1)
        close == IF open = 0 THEN 0 ELSE IndexOf(elem.text, "</value>", open + 1)
    IN  IF ~elem.some \/ open = 0 \/ close = 0 THEN NoneText
        ELSE Some(Strip(SubSeq(elem.text, open + 1, close - 1)))

\* the dict parse_form4_xml appends for one block
ParseBlock(b) ==
    [code |-> Or(inner_value(b.code), get(b.code)),
     acq_disp |-> Or(inner_value(b.acq), get(b.acq)),
     shares |-> inner_value(b.shares),
     price |-> inner_value(b.price)]

parse_form4_xml(blocks) == [i \in 1..Len(blocks) |-> ParseBlock(blocks[i])]

parse_header_fields(doc) ==
    [ticker |-> Upper(Strip(OrEmpty(get(doc.ticker)))),
     officer_title |-> doc.officer_title,
     is_director |-> doc.is_director,
     is_officer |-> doc.is_officer,
     is_ten |-> doc.is_ten]

\* value_usd <= MIN_USD: the comparison of a variant that rejects a value
\* equal to the minimum
BelowOrAtMinUsd(value_usd) ==
    \/ FLessUsd(value_usd, MIN_USD)
    \/ (value_usd.k = "fin" /\ value_usd.v = MIN_USD /\ value_usd.f = 0)

\* value_usd < MIN_USD (scanner.py:346)
BelowMinUsd(value_usd) == FLessUsd(value_usd, MIN_USD)

\* the guards of the transaction loop (scanner.py:333-347): TRUE when the
\* loop reaches out.append for this parsed block
Qualifies(tx) ==
    LET code == Upper(Strip(OrEmpty(tx.code)))
        acq == Upper(Strip(OrEmpty(tx.acq_disp)))
        shares == to_float(tx.shares)
        price == to_float(tx.price)
    IN  /\ code = <<"P">>
        /\ ~(acq # <<>> /\ acq # <<"A">>)
        /\ ~(shares.k = "none" \/ price.k = "none")
        /\ ~BelowMinUsd(FMul(shares, price))

\* the BuyTx the loop appends (scanner.py:349-365); cand is the feed entry
\* the document belongs to, xml the manifest name picked for it
MakeBuyTx(tx, header, cand, xml) ==
    [ticker |-> header.ticker,
     accession |-> cand,
     insider_title |->
        IF header.officer_title # "" THEN header.officer_title
        ELSE IF header.is_director THEN "Director" ELSE "",
     is_director |-> header.is_director,
     is_officer |-> header.is_officer,
     is_ten_percent |-> header.is_ten,
     shares |-> to_float(tx.shares),
     price |-> to_float(tx.price),
     value_usd |-> FMul(to_float(tx.shares), to_float(tx.price)),
     sec_xml_url |-> xml]

RECURSIVE TxLoop(_, _, _, _)
TxLoop(txs, header, cand, xml) ==
    IF txs = <<>> THEN <<>>
    ELSE (IF Qualifies(Head(txs))
          THEN <<MakeBuyTx(Head(txs), header, cand, xml)>> ELSE <<>>)
         \o TxLoop(Tail(txs), header, cand, xml)

\* scanner.py:326-365: what one fetched document adds to out
RecordsOfDoc(doc, cand, xml) ==
    LET header == parse_header_fields(doc)
    IN  IF header.ticker = <<>> THEN <<>>
        ELSE TxLoop(parse_form4_xml(doc.blocks), header, cand, xml)

(***************************************************************************)
(* HTTP.  A response is its status code; 0 stands for a network-level      *)
(* failure (no response: requests.get raises).                             *)
(***************************************************************************)

\* requests.get followed by raise_for_status (scanner.py:59-60): TRUE when
\* http_get returns the response, FALSE when it raises
HttpOk(status) == status # 0 /\ ~(status >= 400 /\ status < 600)

(***************************************************************************)
(* Manifest (index.json) and the choice of the Form 4 XML.  A file name is *)
(* a record of the traits the code reads: [name, xml, form4, f345,         *)
(* primary, ord], ord being the name's place in Python's string order.     *)
(***************************************************************************)
NameScore(f) ==
    (IF f.form4 THEN 5 ELSE 0) + (IF f.f345 THEN 3 ELSE 0)
        + (IF f.primary THEN 2 ELSE 0)

\* priority.sort(reverse=True)[0]: the greatest (score, name) pair
BestName(xmls) ==
    CHOOSE f \in xmls :
        \A g \in xmls :
            \/ NameScore(g) < NameScore(f)
            \/ (NameScore(g) = NameScore(f) /\ g.ord <= f.ord)

\* pick_form4_xml_from_index, given the outcome of the manifest GET: the
\* status, whether the body is the JSON object expected, and its items.
\* Every exception ends in None.
pick_form4_xml_from_index(status, jsonOk, listing) ==
    LET xmls == {listing[i] : i \in {j \in 1..Len(listing) : listing[j].xml}}
    IN  IF ~HttpOk(status) \/ ~jsonOk \/ xmls = {} THEN ""
        ELSE BestName(xmls).name

(***************************************************************************)
(* Enrichment.  The price history the provider returns is summarised by    *)
(* what yf_enrich reads from it: [kind, n, last, low, high, high90] with   *)
(* kind "raise" (the provider raises, or the history has no close),        *)
(* "empty" (no history) or "data"; n the number of closes, last the last   *)
(* close, low and high the 52-week extremes, high90 the maximum of the     *)
(* last 90 closes.  A metric is an optional exact fraction.                *)
(***************************************************************************)
NoMetric == [some |-> FALSE, num |-> 0, den |-> 1]

Metric(num, den) == [some |-> TRUE, num |-> num, den |-> den]

Min(a, b) == IF a < b THEN a ELSE b

\* yf_enrich: (range_pctl_52w, drawdown_3m); day_pct and vol_ratio are only
\* displayed and are left out
yf_enrich(resp) ==
    IF resp.kind # "data"
    THEN [range_pctl |-> NoMetric, drawdown_3m |-> NoMetric]
    ELSE [range_pctl |->
             IF resp.high > resp.low
             THEN Metric(resp.last - resp.low, resp.high - resp.low)
             ELSE NoMetric,
          drawdown_3m |->
             IF Min(resp.n, 90) >= 20 /\ resp.high90 # 0
             THEN Metric(resp.high90 - resp.last, resp.high90)
             ELSE NoMetric]

\* m <= pct / 100 and m >= pct / 100, for a present metric
MetricLe(m, pct) == m.num * 100 <= pct * m.den

MetricGe(m, pct) == m.num * 100 >= pct * m.den

\* a filter that lets a record through when no metric is available
passes_structure_open(range_pctl, drawdown_3m) ==
    \/ (~range_pctl.some /\ ~drawdown_3m.some)
    \/ (range_pctl.some /\ MetricLe(range_pctl, RANGE_PCTL_MAX))
    \/ (drawdown_3m.some /\ MetricGe(drawdown_3m, DRAWDOWN_3M_MIN))

passes_structure(range_pctl, drawdown_3m) ==
    LET ok_range == range_pctl.some /\ MetricLe(range_pctl, RANGE_PCTL_MAX)
        ok_dd == drawdown_3m.some /\ MetricGe(drawdown_3m, DRAWDOWN_3M_MIN)
    IN  ok_range \/ ok_dd

\* any(k in t for k in ["ceo", "chief executive", "cfo", "chief financial",
\* "president"]) on the lower-cased title, for the titles of the model
HasExecutiveKeyword(title) ==
    title \in {"CEO", "Chief Financial Officer", "President"}

\* weight_role, in tenths
weight_role(officer_title, is_director, is_officer, is_ten) ==
    10 + (IF HasExecutiveKeyword(officer_title) THEN 12
          ELSE IF is_director THEN 8
          ELSE IF is_officer THEN 3 ELSE 0)
       + (IF is_ten THEN 2 ELSE 0)

\* score_tx, in tenths
score_tx(value_usd, role_w, range_pctl, drawdown_3m) ==
    role_w
      + (IF FGeUsd(value_usd, 300000) THEN 8 ELSE 0)
      + (IF FGeUsd(value_usd, 500000) THEN 6 ELSE 0)
      + (IF range_pctl.some
         THEN IF MetricLe(range_pctl, 50) THEN 16
              ELSE IF MetricLe(range_pctl, 65) THEN 10 ELSE 0
         ELSE 0)
      + (IF drawdown_3m.some /\ MetricGe(drawdown_3m, DRAWDOWN_3M_MIN)
         THEN 8 ELSE 0)

\* the Enriched main() appends for tx (scanner.py:404-416)
MakeEnriched(tx, m) ==
    [tx |-> tx,
     range_pctl_52w |-> m.range_pctl,
     drawdown_3m |-> m.drawdown_3m,
     score |-> score_tx(tx.value_usd,
                        weight_role(tx.insider_title, tx.is_director,
                                    tx.is_officer, tx.is_ten_percent),
                        m.range_pctl, m.drawdown_3m)]

(***************************************************************************)
(* Digest.  The text is modelled as its lines; a line is [kind, pos, it]:  *)
(* kind "title", "blank" or "zero" (the "0 signals" line) with pos 0, or   *)
(* one of the four lines "rank", "insider", "struct", "sec" of the alert   *)
(* at position pos, it being that alert.  Number formatting is left out.   *)
(***************************************************************************)

\* an insertion that puts x before the elements of equal score, as a
\* reversed ascending sort would
RECURSIVE InsertDescUnstable(_, _)
InsertDescUnstable(s, x) ==
    IF s = <<>> THEN <<x>>
    ELSE IF Head(s).score > x.score
    THEN <<Head(s)>> \o InsertDescUnstable(Tail(s), x)
    ELSE <<x>> \o s

\* where sorted(..., reverse=True) puts x among the already sorted s: after
\* every element whose score is >= x's (the sort is stable)
RECURSIVE InsertDesc(_, _)
InsertDesc(s, x) ==
    IF s = <<>> THEN <<x>>
    ELSE IF Head(s).score >= x.score THEN <<Head(s)>> \o InsertDesc(Tail(s), x)
    ELSE <<x>> \o s

\* sorted(items, key=lambda x: x.score, reverse=True)
RECURSIVE SortedDesc(_)
SortedDesc(items) ==
    IF items = <<>> THEN <<>>
    ELSE InsertDesc(SortedDesc(SubSeq(items, 1, Len(items) - 1)),
                    items[Len(items)])

\* [:MAX_ITEMS]
Truncate(s) == SubSeq(s, 1, Min(Len(s), MAX_ITEMS))

NoItem == [score |-> 0]

Line(kind) == [kind |-> kind, pos |-> 0, it |-> NoItem]

ItemLines(i, it) ==
    <<[kind |-> "rank", pos |-> i, it |-> it],
      [kind |-> "insider", pos |-> i, it |-> it],
      [kind |-> "struct", pos |-> i, it |-> it],
      [kind |-> "sec", pos |-> i, it |-> it],
      Line("blank")>>

RECURSIVE AllItemLines(_, _)
AllItemLines(items, i) ==
    IF i > Len(items) THEN <<>>
    ELSE ItemLines(i, items[i]) \o AllItemLines(items, i + 1)

\* "\n".join(lines).strip(): the blank lines at either end are dropped
RECURSIVE StripLines(_)
StripLines(lines) ==
    IF lines # <<>> /\ lines[Len(lines)].kind = "blank"
    THEN StripLines(SubSeq(lines, 1, Len(lines) - 1))
    ELSE IF lines # <<>> /\ Head(lines).kind = "blank"
    THEN StripLines(Tail(lines))
    ELSE lines

Heartbeat == <<Line("title"), Line("blank"), Line("zero")>>

build_digest(items) ==
    IF items = <<>> THEN Heartbeat
    ELSE StripLines(<<Line("title"), Line("blank")>>
                    \o AllItemLines(Truncate(SortedDesc(items)), 1))

(***************************************************************************)
(* State.                                                                  *)
(*  Pipeline (main): env, feed, run, pc, idx, xml, out, eidx, enriched,    *)
(*    msg, reqs, exitCode, and the history variables olog (what happened   *)
(*    to each feed entry), elog (the provider's answer and the verdict for *)
(*    each record of out) and prev (the alerts of the previous run).       *)
(*  Extraction of one document: xdoc, xout, xpc.                           *)
(*  build_digest on one list: ditems, dmsg, dpc.                           *)
(*  http_get on one URL: fscript (the statuses the server would answer to  *)
(*    successive requests), fattempts, fres, fpc.                          *)
(***************************************************************************)
VARIABLES env, feed, run, pc, idx, xml, out, eidx, enriched, msg, reqs,
          exitCode, olog, elog, prev,
          xdoc, xout, xpc,
          ditems, dmsg, dpc,
          fscript, fattempts, fres, fpc

pvars == <<env, feed, run, pc, idx, xml, out, eidx, enriched, msg, reqs,
           exitCode, olog, elog, prev>>

xvars == <<xdoc, xout, xpc>>

dvars == <<ditems, dmsg, dpc>>

fvars == <<fscript, fattempts, fres, fpc>>

vars == <<pvars, xvars, dvars, fvars>>

NoReqs == [feed |-> 0, manifest |-> 0, doc |-> 0, enrich |-> 0, post |-> 0]

PIdle ==
    /\ env = [ua |-> FALSE, token |-> FALSE, chat |-> FALSE]
    /\ feed = <<>> /\ run = 0 /\ pc = "idle" /\ idx = 0 /\ xml = ""
    /\ out = <<>> /\ eidx = 0 /\ enriched = <<>> /\ msg = <<>>
    /\ reqs = NoReqs /\ exitCode = 0 /\ olog = <<>> /\ elog = <<>>
    /\ prev = <<>>

XIdle == xdoc = <<>> /\ xout = <<>> /\ xpc = "idle"

DIdle == ditems = <<>> /\ dmsg = <<>> /\ dpc = "idle"

FIdle == fscript = <<>> /\ fattempts = 0 /\ fres = "idle" /\ fpc = "idle"

(***************************************************************************)
(* Specification SpecExtract: the extraction stage applied to one          *)
(* document drawn from a bounded set.                                      *)
(***************************************************************************)
\* the nested "value" container around a text, with and without the
\* whitespace of an indented document
Wrapped(t) == <<"<value>">> \o t \o <<"</value>">>

WrappedIndented(t) == <<" ", "<value>">> \o t \o <<"</value>", " ">>

\* Test texts for the number fields, each with the number a reader takes it
\* for, in hundredths (num), or known = FALSE when it is no finite number.
ShareTexts ==
    {[t |-> <<"1", "0", "0", "0">>, known |-> TRUE, num |-> 100000],
     [t |-> <<"1", ",", "0", "0", "0">>, known |-> TRUE, num |-> 100000],
     [t |-> <<" ", "1">>, known |-> TRUE, num |-> 100],
     [t |-> <<"0">>, known |-> TRUE, num |-> 0],
     [t |-> <<"-", "1", "0", "0", "0">>, known |-> TRUE, num |-> -100000],
     [t |-> <<"x">>, known |-> FALSE, num |-> 0],
     [t |-> <<>>, known |-> FALSE, num |-> 0],
     [t |-> <<"n", "a", "n">>, known |-> FALSE, num |-> 0]}

PriceTexts ==
    {[t |-> <<"1", "5", "0">>, known |-> TRUE, num |-> 15000],
     [t |-> <<"1", "5", "0", ".", "0", "1">>, known |-> TRUE, num |-> 15001],
     [t |-> <<"1", "4", "9", ".", "9", "9">>, known |-> TRUE, num |-> 14999],
     [t |-> <<"2", "0", "0">>, known |-> TRUE, num |-> 20000],
     [t |-> <<"-", "2", "0", "0">>, known |-> TRUE, num |-> -20000],
     [t |-> <<"1", "5", "0", "0", "0", "0">>, known |-> TRUE, num |-> 15000000],
     [t |-> <<"1", "5", "0", "0", "0", "0", ".", "0", "1">>,
      known |-> TRUE, num |-> 15000001],
     [t |-> <<"1", "4", "9", "9", "9", "9", ".", "9", "9">>,
      known |-> TRUE, num |-> 14999999],
     [t |-> <<"0">>, known |-> TRUE, num |-> 0],
     [t |-> <<>>, known |-> FALSE, num |-> 0],
     [t |-> <<"i", "n", "f">>, known |-> FALSE, num |-> 0]}

\* an element holding text t, directly or in the nested container
ElementForms(t) == {Some(t), Some(Wrapped(t))}

ShareElements == {NoneText} \cup UNION {ElementForms(n.t) : n \in ShareTexts}

PriceElements == {NoneText} \cup UNION {ElementForms(n.t) : n \in PriceTexts}

CodeElements ==
    {NoneText, Some(<<"P">>), Some(Wrapped(<<"P">>)),
     Some(WrappedIndented(<<"p", " ">>)), Some(Wrapped(<<"S">>)),
     Some(Wrapped(<<>>))}

AcqElements ==
    {NoneText, Some(<<"A">>), Some(WrappedIndented(<<"A">>)),
     Some(Wrapped(<<"D">>))}

TickerElements ==
    {NoneText, Some(<<" ">>), Some(<<" ", "a", "c", "m", "e", " ">>)}

XBlocks ==
    [code : CodeElements, acq : AcqElements,
     shares : ShareElements, price : PriceElements]

\* a plain qualifying purchase: 1,000 shares at $200
GoodBlock ==
    [code |-> Some(Wrapped(<<"P">>)), acq |-> Some(Wrapped(<<"A">>)),
     shares |-> Some(Wrapped(<<"1", "0", "0", "0">>)),
     price |-> Some(Wrapped(<<"2", "0", "0">>))]

\* how many plain purchases may precede and follow the block under test
MaxPad == 1

RECURSIVE Repeat(_, _)
Repeat(x, n) == IF n = 0 THEN <<>> ELSE <<x>> \o Repeat(x, n - 1)

XDoc(ticker, b, pre, post) ==
    [ticker |-> ticker, officer_title |-> "", is_director |-> TRUE,
     is_officer |-> FALSE, is_ten |-> FALSE,
     blocks |-> Repeat(GoodBlock, pre) \o <<b>> \o Repeat(GoodBlock, post),
     at |-> pre + 1]

XInit ==
    /\ \E ticker \in TickerElements, b \in XBlocks, pre, post \in 0..MaxPad :
          xdoc = XDoc(ticker, b, pre, post)
    /\ xout = <<>>
    /\ xpc = "fetched"
    /\ PIdle /\ DIdle /\ FIdle

\* scanner.py:326-365 on the fetched document
XExtract ==
    /\ xpc = "fetched"
    /\ xout' = RecordsOfDoc(xdoc, 1, "form4.xml")
    /\ xpc' = "done"
    /\ UNCHANGED <<xdoc, pvars, dvars, fvars>>

XNext == XExtract

SpecExtract == XInit /\ [][XNext]_vars

(***************************************************************************)
(* Specification Spec: one run of main() against a feed snapshot.          *)
(* SpecTwoRuns adds a second run against the same snapshot.                *)
(*                                                                         *)
(* A feed entry is [acc, updated, info, listing, doc]: acc its place in    *)
(* the feed (the accession number), updated "fresh", "stale" (older than   *)
(* the 26 hour cutoff) or "none" (absent or unparseable), info whether     *)
(* extract_cik_accession finds a CIK and an accession number, listing the  *)
(* files of the filing folder and doc the document served for the XML      *)
(* picked from it.                                                         *)
(***************************************************************************)

\* the longest feed
MaxFeed == 2

FileHtml ==
    [name |-> "index.html", xml |-> FALSE, form4 |-> FALSE, f345 |-> FALSE,
     primary |-> FALSE, ord |-> 2]

FileDoc ==
    [name |-> "doc.xml", xml |-> TRUE, form4 |-> FALSE, f345 |-> FALSE,
     primary |-> FALSE, ord |-> 1]

FilePrimary ==
    [name |-> "primary_doc.xml", xml |-> TRUE, form4 |-> FALSE,
     f345 |-> FALSE, primary |-> TRUE, ord |-> 3]

FileForm4 ==
    [name |-> "wf-form4.xml", xml |-> TRUE, form4 |-> TRUE, f345 |-> FALSE,
     primary |-> FALSE, ord |-> 4]

Listings == {<<FileHtml>>, <<FileDoc, FileForm4, FilePrimary, FileHtml>>}

SaleBlock ==
    [code |-> Some(Wrapped(<<"S">>)), acq |-> Some(Wrapped(<<"D">>)),
     shares |-> Some(Wrapped(<<"1", "0", "0", "0">>)),
     price |-> Some(Wrapped(<<"2", "0", "0">>))]

\* the purchase of the spec's second scenario: no price element
NoPriceBlock ==
    [code |-> Some(Wrapped(<<"P">>)), acq |-> Some(Wrapped(<<"A">>)),
     shares |-> Some(Wrapped(<<"1", "0", "0", "0">>)),
     price |-> NoneText]

\* 1,000 shares at $150,000.01
BigBlock ==
    [code |-> Some(Wrapped(<<"P">>)), acq |-> NoneText,
     shares |-> Some(Wrapped(<<"1", ",", "0", "0", "0">>)),
     price |-> Some(Wrapped(<<"1", "5", "0", "0", "0", "0", ".", "0", "1">>))]

AcmeTicker == Some(<<"A", "C", "M", "E">>)

Docs ==
    {[ticker |-> AcmeTicker, officer_title |-> "", is_director |-> TRUE,
      is_officer |-> FALSE, is_ten |-> FALSE,
      blocks |-> <<SaleBlock, GoodBlock>>],
     [ticker |-> Some(<<" ", "x", " ">>), officer_title |-> "CEO",
      is_director |-> FALSE, is_officer |-> TRUE, is_ten |-> TRUE,
      blocks |-> <<BigBlock>>],
     [ticker |-> AcmeTicker, officer_title |-> "", is_director |-> FALSE,
      is_officer |-> TRUE, is_ten |-> FALSE,
      blocks |-> <<NoPriceBlock>>],
     [ticker |-> NoneText, officer_title |-> "", is_director |-> TRUE,
      is_officer |-> FALSE, is_ten |-> FALSE,
      blocks |-> <<GoodBlock>>]}

\* the entries of a feed, but for acc
EntryShapes ==
    [updated : {"fresh"}, info : {TRUE}, listing : Listings, doc : Docs]
    \cup [updated : {"stale", "none"}, info : {TRUE},
          listing : {<<FileHtml>>}, doc : {CHOOSE d \in Docs : d.ticker = NoneText}]
    \cup [updated : {"fresh"}, info : {FALSE},
          listing : {<<FileHtml>>}, doc : {CHOOSE d \in Docs : d.ticker = NoneText}]

Entry(i, shape) ==
    [acc |-> i, updated |-> shape.updated, info |-> shape.info,
     listing |-> shape.listing, doc |-> shape.doc]

Feeds ==
    UNION {{[i \in 1..n |-> Entry(i, sh[i])] : sh \in [1..n -> EntryShapes]} :
           n \in 0..MaxFeed}

\* the statuses the pipeline's requests may meet
PipelineStatuses == {0, 200, 404, 503}

\* what the price-history provider may answer
ProviderResponses ==
    {[kind |-> k, n |-> 0, last |-> 0, low |-> 0, high |-> 0, high90 |-> 0] :
        k \in {"raise", "empty"}}
    \cup {[kind |-> "data", n |-> n, last |-> last, low |-> 0, high |-> 100,
           high90 |-> 100] : n \in {19, 20}, last \in {50, 65, 66, 85, 86}}
    \cup {[kind |-> "data", n |-> 20, last |-> 100, low |-> 100,
           high |-> 100, high90 |-> 100]}

\* the locals of main() and fetch_sec_buys_last_24h() before a run
FreshRun ==
    /\ pc' = "main" /\ idx' = 0 /\ xml' = "" /\ out' = <<>> /\ eidx' = 0
    /\ enriched' = <<>> /\ msg' = <<>> /\ reqs' = NoReqs /\ exitCode' = 0
    /\ olog' = <<>> /\ elog' = <<>>

Init ==
    /\ env \in [ua : BOOLEAN, token : BOOLEAN, chat : BOOLEAN]
    /\ feed \in Feeds
    /\ run = 1 /\ pc = "main" /\ idx = 0 /\ xml = "" /\ out = <<>>
    /\ eidx = 0 /\ enriched = <<>> /\ msg = <<>> /\ reqs = NoReqs
    /\ exitCode = 0 /\ olog = <<>> /\ elog = <<>> /\ prev = <<>>
    /\ XIdle /\ DIdle /\ FIdle

\* a check of the Telegram credentials alone
ConfigOkTelegramOnly(e) == e.token /\ e.chat

\* TELEGRAM_BOT_TOKEN and TELEGRAM_CHAT_ID and SEC_USER_AGENT
\* (scanner.py:392)
ConfigOk(e) == e.token /\ e.chat /\ e.ua

Count(kind) == [reqs EXCEPT ![kind] = @ + 1]

\* main(), scanner.py:392-393
MainCheck ==
    /\ pc = "main"
    /\ IF ConfigOk(env)
       THEN pc' = "fetch_feed" /\ exitCode' = exitCode
       ELSE pc' = "exit" /\ exitCode' = 1
    /\ UNCHANGED <<env, feed, run, idx, xml, out, eidx, enriched, msg, reqs,
                   olog, elog, prev,
                   xvars, dvars, fvars>>

\* fetch_sec_buys_last_24h, scanner.py:289-290: the feed GET is not
\* guarded; its failure ends the run with a traceback
FetchFeed ==
    /\ pc = "fetch_feed"
    /\ \E status \in PipelineStatuses :
          IF HttpOk(status)
          THEN pc' = "loop" /\ idx' = 1 /\ exitCode' = exitCode
          ELSE pc' = "crash" /\ idx' = idx /\ exitCode' = 1
    /\ reqs' = Count("feed")
    /\ UNCHANGED <<env, feed, run, xml, out, eidx, enriched, msg, olog, elog,
                   prev,
                   xvars, dvars, fvars>>

\* the loop's continue
Continue(outcome) ==
    /\ pc' = "loop"
    /\ idx' = idx + 1
    /\ olog' = Append(olog, outcome)

\* scanner.py:297-313: an entry without a usable date, older than the
\* cutoff, or without CIK and accession number is passed over
SkipEntry ==
    /\ pc = "loop" /\ idx <= Len(feed)
    /\ feed[idx].updated # "fresh" \/ ~feed[idx].info
    /\ Continue("skipped")
    /\ UNCHANGED <<env, feed, run, xml, out, eidx, enriched, msg, reqs,
                   exitCode, elog, prev,
                   xvars, dvars, fvars>>

\* scanner.py:317-319: the manifest GET and the choice of the XML
Resolve ==
    /\ pc = "loop" /\ idx <= Len(feed)
    /\ feed[idx].updated = "fresh" /\ feed[idx].info
    /\ \E status \in PipelineStatuses, jsonOk \in BOOLEAN :
          LET url == pick_form4_xml_from_index(status, jsonOk,
                                               feed[idx].listing)
          IN  IF url = ""
              THEN Continue("unresolved") /\ xml' = xml
              ELSE pc' = "get_doc" /\ xml' = url /\ idx' = idx
                   /\ olog' = olog
    /\ reqs' = Count("manifest")
    /\ UNCHANGED <<env, feed, run, out, eidx, enriched, msg, exitCode, elog,
                   prev,
                   xvars, dvars, fvars>>

\* an except clause that catches HTTP errors only, not network failures
DocFailureCaughtHttpOnly(status) == status # 0

\* try: http_get(xml_url) except Exception: continue (scanner.py:321-324):
\* TRUE when a failure with this status is caught
DocFailureCaught(status) == TRUE

\* scanner.py:321-365: the document GET, the header and the transactions
GetDoc ==
    /\ pc = "get_doc"
    /\ \E status \in PipelineStatuses :
          IF HttpOk(status)
          THEN LET recs == RecordsOfDoc(feed[idx].doc, feed[idx].acc, xml)
               IN  /\ out' = out \o recs
                   /\ Continue(IF parse_header_fields(feed[idx].doc).ticker
                                     = <<>>
                               THEN "noticker" ELSE "parsed")
                   /\ exitCode' = exitCode
          ELSE IF DocFailureCaught(status)
          THEN Continue("doc_failed") /\ out' = out /\ exitCode' = exitCode
          ELSE pc' = "crash" /\ exitCode' = 1
               /\ UNCHANGED <<idx, olog, out>>
    /\ reqs' = Count("doc")
    /\ UNCHANGED <<env, feed, run, xml, eidx, enriched, msg, elog, prev,
                   xvars, dvars, fvars>>

\* scanner.py:367, 395-397: the loop is over, main() starts on txs
LoopEnd ==
    /\ pc = "loop" /\ idx > Len(feed)
    /\ pc' = "enrich" /\ eidx' = 1
    /\ UNCHANGED <<env, feed, run, idx, xml, out, enriched, msg, reqs,
                   exitCode, olog, elog, prev,
                   xvars, dvars, fvars>>

\* scanner.py:398-416: one record enriched, filtered and scored
Enrich ==
    /\ pc = "enrich" /\ eidx <= Len(out)
    /\ \E resp \in ProviderResponses :
          LET m == yf_enrich(resp)
              ok == passes_structure(m.range_pctl, m.drawdown_3m)
          IN  /\ enriched' = IF ok
                             THEN Append(enriched, MakeEnriched(out[eidx], m))
                             ELSE enriched
              /\ elog' = Append(elog, [resp |-> resp, accepted |-> ok])
    /\ eidx' = eidx + 1
    /\ reqs' = Count("enrich")
    /\ UNCHANGED <<env, feed, run, pc, idx, xml, out, msg, exitCode, olog,
                   prev,
                   xvars, dvars, fvars>>

\* scanner.py:418
BuildDigest ==
    /\ pc = "enrich" /\ eidx > Len(out)
    /\ msg' = build_digest(enriched)
    /\ pc' = "send"
    /\ UNCHANGED <<env, feed, run, idx, xml, out, eidx, enriched, reqs,
                   exitCode, olog, elog, prev,
                   xvars, dvars, fvars>>

\* send_telegram (scanner.py:63-67, 420): one POST, its failure raised
Send ==
    /\ pc = "send"
    /\ \E status \in PipelineStatuses :
          IF HttpOk(status)
          THEN pc' = "done" /\ exitCode' = 0
          ELSE pc' = "crash" /\ exitCode' = 1
    /\ reqs' = Count("post")
    /\ UNCHANGED <<env, feed, run, idx, xml, out, eidx, enriched, msg, olog,
                   elog, prev,
                   xvars, dvars, fvars>>

Next ==
    \/ MainCheck
    \/ FetchFeed
    \/ SkipEntry
    \/ Resolve
    \/ GetDoc
    \/ LoopEnd
    \/ Enrich
    \/ BuildDigest
    \/ Send

Spec == Init /\ [][Next]_vars

\* the alerts of a run, by accession number
AlertIds(items) == [i \in 1..Len(items) |-> items[i].tx.accession]

\* main() is started again after a run that sent its digest; nothing of
\* the first run is kept by the program (prev is history only)
SecondRun ==
    /\ pc = "done" /\ run = 1
    /\ run' = 2
    /\ prev' = AlertIds(enriched)
    /\ FreshRun
    /\ UNCHANGED <<env, feed, xvars, dvars, fvars>>

NextTwoRuns ==
    \/ Next
    \/ SecondRun

SpecTwoRuns == Init /\ [][NextTwoRuns]_vars

(***************************************************************************)
(* Specification SpecDigest: build_digest applied to one list of alerts.   *)
(***************************************************************************)

\* the longest list of alerts handed to build_digest
MaxAlerts == 9

DigestScores == {18, 26, 34}

\* the alert discovered i-th, with the given score
DItem(i, score) ==
    [tx |-> [ticker |-> <<"A", "C", "M", "E">>, accession |-> i,
             insider_title |-> "Director", is_director |-> TRUE,
             is_officer |-> FALSE, is_ten_percent |-> FALSE,
             shares |-> Fin(100000), price |-> Fin(20000),
             value_usd |-> FMul(Fin(100000), Fin(20000)),
             sec_xml_url |-> "form4.xml"],
     range_pctl_52w |-> Metric(1, 2),
     drawdown_3m |-> NoMetric,
     score |-> score]

DInit ==
    /\ \E n \in 0..MaxAlerts :
          \E sc \in [1..n -> DigestScores] :
             ditems = [i \in 1..n |-> DItem(i, sc[i])]
    /\ dmsg = <<>>
    /\ dpc = "call"
    /\ PIdle /\ XIdle /\ FIdle

DBuild ==
    /\ dpc = "call"
    /\ dmsg' = build_digest(ditems)
    /\ dpc' = "done"
    /\ UNCHANGED <<ditems, pvars, xvars, fvars>>

DNext == DBuild

SpecDigest == DInit /\ [][DNext]_vars

(***************************************************************************)
(* Specification SpecFetch: one call of http_get against a server whose    *)
(* answers to successive requests are fscript.                             *)
(***************************************************************************)

\* how many answers of the server are fixed in advance
MaxScript == 3

Statuses == {0, 200, 404, 429, 500, 503}

FInit ==
    /\ \E n \in 1..MaxScript : fscript \in [1..n -> Statuses]
    /\ fattempts = 0
    /\ fres = "pending"
    /\ fpc = "call"
    /\ PIdle /\ XIdle /\ DIdle

\* http_get (scanner.py:57-61): one request; its failure is raised
FHttpGet ==
    /\ fpc = "call"
    /\ fattempts' = fattempts + 1
    /\ fres' = IF HttpOk(fscript[fattempts + 1]) THEN "response" ELSE "raised"
    /\ fpc' = "done"
    /\ UNCHANGED <<fscript, pvars, xvars, dvars>>

FNext == FHttpGet

SpecFetch == FInit /\ [][FNext]_vars

(***************************************************************************)
(* Properties.                                                             *)
(***************************************************************************)

\* the digest is the "0 signals" message
IsHeartbeat(m) == Len(m) = 3 /\ m[3].kind = "zero"

\* C1 (SpecTwoRuns): when main() has run to the end and alerted, and is run
\* again against the same feed snapshot, the second run finds no new alert
\* and sends the heartbeat message.
C1_SecondRunSendsHeartbeat ==
    (run = 2 /\ pc = "done" /\ prev # <<>>)
        => (enriched = <<>> /\ IsHeartbeat(msg))

\* ---- extraction of one document (SpecExtract) ----

\* the block under test
TestBlock == xdoc.blocks[xdoc.at]

\* the document names an issuer ticker
TickerGiven == xdoc.ticker = Some(<<" ", "a", "c", "m", "e", " ">>)

\* the block is coded as an open-market purchase (code P, acquired or
\* without an acquired/disposed code)
PurchaseCoded(b) ==
    /\ b.code \in {Some(<<"P">>), Some(Wrapped(<<"P">>)),
                   Some(WrappedIndented(<<"p", " ">>))}
    /\ b.acq \in {NoneText, Some(<<"A">>), Some(WrappedIndented(<<"A">>))}

\* the element gives a finite number, in either form
HasNumber(elem, texts) ==
    \E n \in texts : n.known /\ elem \in ElementForms(n.t)

\* that number, in hundredths
NumberOf(elem, texts) ==
    (CHOOSE n \in texts : elem \in ElementForms(n.t)).num

\* the element gives its text in the nested value container
IsWrapped(elem) == elem.some /\ IndexOf(elem.text, "<value>", 1) > 0

\* the block under test produced a record (every other block of the
\* document is a plain qualifying purchase)
Emitted == Len(xout) = Len(xdoc.blocks)

\* s * p = target and s * p >= target, for s and p in hundredths and a
\* target > 0 in ten-thousandths, by division
ProductEquals(s, p, target) ==
    /\ Sign(s) * Sign(p) = 1
    /\ target % Abs(s) = 0
    /\ Abs(p) = target \div Abs(s)

ProductAtLeast(s, p, target) ==
    /\ Sign(s) * Sign(p) = 1
    /\ \/ Abs(p) > target \div Abs(s)
       \/ (Abs(p) = target \div Abs(s) /\ target % Abs(s) = 0)

\* MIN_USD in ten-thousandths of a dollar
MinTarget == MIN_USD * 10000

\* a purchase whose share count and price the extractor reads: both in the
\* nested value form, both finite numbers, in a document with a ticker
ValuedPurchase ==
    /\ xpc = "done" /\ TickerGiven /\ PurchaseCoded(TestBlock)
    /\ IsWrapped(TestBlock.shares) /\ HasNumber(TestBlock.shares, ShareTexts)
    /\ IsWrapped(TestBlock.price) /\ HasNumber(TestBlock.price, PriceTexts)

TestShares == NumberOf(TestBlock.shares, ShareTexts)

TestPrice == NumberOf(TestBlock.price, PriceTexts)

C8_OnlyPositiveRecords ==
    xpc = "done" =>
        /\ \A i \in 1..Len(xout) :
              /\ xout[i].ticker # <<>>
              /\ xout[i].shares.k = "fin" /\ xout[i].shares.v > 0
              /\ xout[i].price.k = "fin" /\ xout[i].price.v > 0
        /\ ~(/\ HasNumber(TestBlock.shares, ShareTexts) /\ TestShares > 0
             /\ HasNumber(TestBlock.price, PriceTexts) /\ TestPrice > 0)
              => ~Emitted

\* an element with its direct text put into the nested value container
ToWrapped(elem) ==
    IF elem.some /\ ~IsWrapped(elem) THEN Some(Wrapped(elem.text)) ELSE elem

BlockWrapped(b) ==
    [code |-> ToWrapped(b.code), acq |-> ToWrapped(b.acq),
     shares |-> ToWrapped(b.shares), price |-> ToWrapped(b.price)]

DocWrapped(doc) ==
    [doc EXCEPT !.blocks = [i \in 1..Len(doc.blocks) |->
                               BlockWrapped(doc.blocks[i])]]

\* C9 (SpecExtract): the records extracted from a document are those
\* extracted from the same document with every directly given field put in
\* the nested value form.
C9_DirectEqualsWrapped ==
    xpc = "done" => xout = RecordsOfDoc(DocWrapped(xdoc), 1, "form4.xml")

\* ---- one run of main() (Spec) ----

FailureOutcomes == {"unresolved", "doc_failed", "noticker"}

\* the feed entries among the first k that did not fail
RECURSIVE Survivors(_, _, _)
Survivors(f, log, k) ==
    IF k = 0 THEN <<>>
    ELSE Survivors(f, log, k - 1)
         \o (IF log[k] \in FailureOutcomes THEN <<>> ELSE <<f[k]>>)

\* what a run in which nothing fails emits for the entries es
RECURSIVE CleanRunOutput(_)
CleanRunOutput(es) ==
    IF es = <<>> THEN <<>>
    ELSE LET e == Head(es)
         IN  (IF e.updated = "fresh" /\ e.info
              THEN RecordsOfDoc(e.doc, e.acc,
                      pick_form4_xml_from_index(200, TRUE, e.listing))
              ELSE <<>>)
             \o CleanRunOutput(Tail(es))

\* C3 (Spec): a failure to resolve, fetch or parse one candidate does not
\* abort the run: the loop goes on to every later candidate, and out is
\* what the feed without the failed candidates yields.  The run is aborted
\* only by the feed GET, before the loop, or by the notification POST.
C3_FailureIsolation ==
    /\ Len(olog) <= Len(feed)
    /\ out = CleanRunOutput(Survivors(feed, olog, Len(olog)))
    /\ pc \in {"enrich", "send", "done"} => Len(olog) = Len(feed)
    /\ pc = "crash" =>
          \/ (reqs.feed = 1 /\ reqs.manifest = 0 /\ reqs.doc = 0)
          \/ (reqs.post = 1 /\ Len(olog) = Len(feed))

\* C3's case: the first candidate's document could not be fetched, the
\* second was parsed and gave a record, and the run ended normally
C3_Witness ==
    /\ pc = "done" /\ Len(olog) = 2
    /\ olog[1] = "doc_failed" /\ olog[2] = "parsed"
    /\ out # <<>>

\* C4 (Spec): while SEC_USER_AGENT is missing no HTTP request is issued, and
\* the run ends at the configuration check with a non-zero exit.
C4_NoRequestWithoutIdentity ==
    ~env.ua =>
        /\ reqs = NoReqs
        /\ pc \in {"main", "exit"}
        /\ pc = "exit" => exitCode # 0

\* C4's case: only the identity string is missing and the run has exited
C4_Witness ==
    /\ ~env.ua /\ env.token /\ env.chat
    /\ feed # <<>> /\ pc = "exit"

\* the provider's answer puts the price at or below RANGE_PCTL_MAX of its
\* range, or DRAWDOWN_3M_MIN or more below its recent high
StructureHolds(resp) ==
    /\ resp.kind = "data"
    /\ \/ (resp.high > resp.low
           /\ (resp.last - resp.low) * 100
                 <= RANGE_PCTL_MAX * (resp.high - resp.low))
       \/ (resp.n >= 20 /\ resp.high90 > 0
           /\ (resp.high90 - resp.last) * 100
                 >= DRAWDOWN_3M_MIN * resp.high90)

AcceptedCount == Cardinality({i \in 1..Len(elog) : elog[i].accepted})

\* the alerts on the digest's lines
DigestItems(m) == {m[i].it : i \in {j \in 1..Len(m) : m[j].pos > 0}}

\* C5 (Spec): a record becomes an alert only if its range percentile is
\* present and <= RANGE_PCTL_MAX or its drawdown is present and >=
\* DRAWDOWN_3M_MIN; a record whose enrichment is unavailable is rejected
\* and is not in the digest.
C5_StructureFailsClosed ==
    /\ \A i \in 1..Len(elog) : elog[i].accepted => StructureHolds(elog[i].resp)
    /\ Len(enriched) = AcceptedCount
    /\ \A i \in 1..Len(enriched) :
          \/ (enriched[i].range_pctl_52w.some
              /\ MetricLe(enriched[i].range_pctl_52w, RANGE_PCTL_MAX))
          \/ (enriched[i].drawdown_3m.some
              /\ MetricGe(enriched[i].drawdown_3m, DRAWDOWN_3M_MIN))
    /\ DigestItems(msg) \subseteq {enriched[i] : i \in 1..Len(enriched)}

\* C5's case: the provider raised for one record and answered for another,
\* which was accepted, and the digest was sent
C5_Witness ==
    /\ pc = "done" /\ Len(elog) = 2
    /\ elog[1].resp.kind = "raise" /\ elog[2].accepted
    /\ Len(enriched) = 1 /\ ~IsHeartbeat(msg)

\* ---- build_digest (SpecDigest) ----

\* the place of the j-th alert in score-descending order, ties in input order
RankOf(j) ==
    1 + Cardinality({i \in 1..Len(ditems) :
                        \/ ditems[i].score > ditems[j].score
                        \/ (ditems[i].score = ditems[j].score /\ i < j)})

\* the alerts on the digest's "rank" lines, in line order
RankLines(m) == SelectSeq(m, LAMBDA l : l.kind = "rank")

\* C6 (SpecDigest): the digest shows the alerts in score-descending order,
\* alerts of equal score in their input order, and shows exactly the first
\* MAX_ITEMS of that order.
C6_DigestOrder ==
    dpc = "done" =>
        LET r == RankLines(dmsg)
        IN  /\ Len(r) = Min(Len(ditems), MAX_ITEMS)
            /\ \A p \in 1..Len(r) :
                  /\ r[p].pos = p
                  /\ \E j \in 1..Len(ditems) :
                        RankOf(j) = p /\ r[p].it = ditems[j]

\* C6's case: more than MAX_ITEMS alerts, with a tie and with a later alert
\* that outranks the first
C6_Witness ==
    /\ dpc = "done" /\ Len(ditems) > MAX_ITEMS
    /\ \E i, j \in 1..Len(ditems) :
          i < j /\ ditems[i].score = ditems[j].score
    /\ \E k \in 2..Len(ditems) : ditems[k].score > ditems[1].score

\* C7 (SpecDigest): when there are more than MAX_ITEMS alerts, the digest
\* has a summary line giving the number of alerts not shown.
C7_TruncationSummarised ==
    (dpc = "done" /\ Len(ditems) > MAX_ITEMS) =>
        \E i \in 1..Len(dmsg) :
            /\ dmsg[i].kind = "more"
            /\ dmsg[i].pos = Len(ditems) - MAX_ITEMS

\* ---- http_get (SpecFetch) ----

\* 429, 5xx, or no response at all
Retryable(status) ==
    status = 0 \/ status = 429 \/ (status >= 500 /\ status < 600)

\* C10 (SpecFetch): a call whose first attempt ends in a retryable failure
\* makes a further attempt when the server would answer one (for any
\* maximum attempt count of two or more), and a call whose attempt ends in
\* a non-retryable status makes exactly one request and fails.
C10_RetryDiscipline ==
    fpc = "done" =>
        /\ (Retryable(fscript[1]) /\ Len(fscript) >= 2) => fattempts >= 2
        /\ (~Retryable(fscript[1]) /\ ~HttpOk(fscript[1]))
              => (fattempts = 1 /\ fres = "raised")

====
